---------------------------- MODULE Spec2Model ----------------------------
(***************************************************************************)
(* Jasmin: a single-threaded static-content HTTP/1.0 server on a readiness *)
(* multiplexer (src/src/main.rs).                                          *)
(*                                                                         *)
(* Text (String, &str, Vec<u8>) is a sequence of symbols.  A symbol is one *)
(* separator character ("/", " ", "\n", "\r"), one undecodable byte        *)
(* ("0xFF") or one run of ordinary characters (a name, a word, a fixed     *)
(* piece of markup).  A PathBuf produced by canonicalize is the sequence   *)
(* of its component names, the filesystem root being <<>>.                 *)
(***************************************************************************)
EXTENDS Integers, Sequences, FiniteSets, TLC

---------------------------------------------------------------------------
(* Bounds of the model *)

\* connections accepted over a run
MaxClients == 2
\* readiness events delivered by one wait
MaxBatch == 2
\* latest modification time (seconds) a file can carry
MaxTime == 1
\* accepted sockets whose registration fails in one accept loop
MaxDrops == 1

(* Program constants *)

CAPACITY == 128
REQUEST_SIZE == 1024
SERVER_TOKEN == 0

---------------------------------------------------------------------------
(* Results: Result<T, Error> with the ErrorKind that the code inspects *)

Ok(v) == [ok |-> TRUE, val |-> v, err |-> "none"]
Err(kind) == [ok |-> FALSE, val |-> <<>>, err |-> kind]

interrupted(error) == error = "Interrupted"
would_block(error) == error = "WouldBlock"
permission_denied(error) == error = "PermissionDenied"
not_found(error) == error = "NotFound"

---------------------------------------------------------------------------
(* Text helpers of the standard library, as the code uses them *)

RECURSIVE trim_start_matches(_, _)
trim_start_matches(s, c) ==
    IF s # <<>> /\ Head(s) = c THEN trim_start_matches(Tail(s), c) ELSE s

\* str::split(c): the pieces between occurrences of c (always at least one)
RECURSIVE split(_, _)
split(s, c) ==
    IF \A i \in 1..Len(s) : s[i] # c
    THEN <<s>>
    ELSE LET k == CHOOSE i \in 1..Len(s) :
                      s[i] = c /\ \A j \in 1..(i - 1) : s[j] # c
         IN  <<SubSeq(s, 1, k - 1)>> \o split(SubSeq(s, k + 1, Len(s)), c)

\* str::lines(): split on "\n", no final empty line, a trailing "\r" stripped
lines(s) ==
    LET pieces == split(s, "\n")
        kept == IF pieces[Len(pieces)] = <<>>
                THEN SubSeq(pieces, 1, Len(pieces) - 1)
                ELSE pieces
        strip(l) == IF l # <<>> /\ l[Len(l)] = "\r"
                    THEN SubSeq(l, 1, Len(l) - 1)
                    ELSE l
    IN  [i \in 1..Len(kept) |-> strip(kept[i])]

\* String::from_utf8 succeeds iff every byte decodes
from_utf8_ok(data) == \A i \in 1..Len(data) : data[i] # "0xFF"

starts_with(full_path, base_path) ==
    /\ Len(full_path) >= Len(base_path)
    /\ SubSeq(full_path, 1, Len(base_path)) = base_path

RECURSIVE join_all(_, _)
join_all(pieces, sep) ==
    IF pieces = <<>> THEN <<>>
    ELSE IF Len(pieces) = 1 THEN pieces[1]
    ELSE pieces[1] \o sep \o join_all(Tail(pieces), sep)

---------------------------------------------------------------------------
(* The filesystem the server reads: nodes by absolute path *)

Contents == {<<"hello">>, <<"bye">>}

NoNode == [kind |-> "none", content |-> <<>>, mtime |-> 0, target |-> <<>>]
FileNode(c, t) == [kind |-> "file", content |-> c, mtime |-> t, target |-> <<>>]
DirNode(t) == [kind |-> "dir", content |-> <<>>, mtime |-> t, target |-> <<>>]
LinkNode(to) == [kind |-> "link", content |-> <<>>, mtime |-> 0, target |-> to]

base_dir == <<"/", "srv">>

RootPath == <<>>
BasePath == <<"srv">>
IndexPath == <<"srv", "index.html">>
DPath == <<"srv", "d">>
EPath == <<"srv", "d", "e">>
LPath == <<"srv", "l">>
SecretPath == <<"secret">>

Nodes == {RootPath, BasePath, IndexPath, DPath, EPath, LPath, SecretPath}

\* the order in which read_dir yields names
DirOrder == <<"index.html", "d", "e", "l", "srv", "secret">>

\* a symlink's target is kept as the components of an absolute path
\* a tree with srv/d/e, the symlink srv/l -> / (out of srv), and the two
\* nodes that other processes change: srv/index.html and /secret
FsWith(index, secret) ==
    [p \in Nodes |->
        CASE p = RootPath -> DirNode(0)
          [] p = BasePath -> DirNode(0)
          [] p = IndexPath -> index
          [] p = DPath -> DirNode(0)
          [] p = EPath -> FileNode(<<"e">>, 0)
          [] p = LPath -> LinkNode(<<>>)
          [] p = SecretPath -> secret]

Exists(fs, p) == p \in Nodes /\ fs[p].kind # "none"

\* std::fs::canonicalize (realpath) of the absolute path whose components,
\* as split on "/", are rest; cur is the resolved prefix
RECURSIVE Resolve(_, _, _, _)
Resolve(fs, cur, rest, hops) ==
    IF rest = <<>> THEN Ok(cur)
    ELSE LET c == Head(rest) IN
         IF fs[cur].kind # "dir" THEN Err("NotADirectory")
         ELSE IF c = <<>> \/ c = <<".">> THEN Resolve(fs, cur, Tail(rest), hops)
         ELSE IF c = <<"..">>
              THEN Resolve(fs, IF cur = <<>> THEN cur
                               ELSE SubSeq(cur, 1, Len(cur) - 1),
                           Tail(rest), hops)
         ELSE IF Len(c) # 1 \/ ~Exists(fs, Append(cur, c[1])) THEN Err("NotFound")
         ELSE LET child == Append(cur, c[1]) IN
              IF fs[child].kind = "link"
              THEN IF hops = 0 THEN Err("FilesystemLoop")
                   ELSE Resolve(fs, RootPath, fs[child].target \o Tail(rest), hops - 1)
              ELSE Resolve(fs, child, Tail(rest), hops)

canonicalize(fs, components) == Resolve(fs, RootPath, components, Cardinality(Nodes))

\* Path::join of a canonical path and a relative string, as components
join(base_path, path) == [i \in 1..Len(base_path) |-> <<base_path[i]>>] \o split(path, "/")

RECURSIVE EntriesFrom(_, _, _)
EntriesFrom(fs, dir, order) ==
    IF order = <<>> THEN <<>>
    ELSE (IF Exists(fs, Append(dir, Head(order))) THEN <<Head(order)>> ELSE <<>>)
         \o EntriesFrom(fs, dir, Tail(order))

\* fs::read_dir: the names of the immediate entries
read_dir(fs, dir) == EntriesFrom(fs, dir, DirOrder)

---------------------------------------------------------------------------
(* Pages and the wire format *)

html_boilerplate(title, content) ==
    <<"<!DOCTYPE html><html><head><title>">> \o title
        \o <<"</title></head><body><main>">> \o content
        \o <<"</main></body></html>">>

bad_request_html == html_boilerplate(<<"Bad Request">>, <<"<h1>Bad Request</h1>">>)
forbidden_html == html_boilerplate(<<"Forbidden">>, <<"<h1>Forbidden</h1>">>)
not_found_html == html_boilerplate(<<"Not Found">>, <<"<h1>Not Found</h1>">>)
internal_server_error_html ==
    html_boilerplate(<<"Internal Server Error">>, <<"<h1>Internal Server Error</h1>">>)

\* headers: a sequence of <<name, value>> pairs
build_response(status, headers, body) ==
    <<"HTTP/1.0 ", status, "\r\n">>
        \o join_all([i \in 1..Len(headers) |->
                        <<headers[i][1], ": ", headers[i][2], "\r\n">>], <<>>)
        \o <<"Server: Jasmin\r\n", "\r\n">>
        \o body

HtmlHeaders == <<<<"Content-Type", "text/html">>>>

\* what a peer reads off a response: its status and what follows the blank line
StatusOf(response) == response[2]
BodyOf(response) ==
    LET k == CHOOSE i \in 2..Len(response) :
                 /\ response[i] = "\r\n" /\ response[i - 1] = "Server: Jasmin\r\n"
                 /\ \A j \in 2..(i - 1) :
                        ~(response[j] = "\r\n" /\ response[j - 1] = "Server: Jasmin\r\n")
    IN  SubSeq(response, k + 1, Len(response))
HasHeader(response, name, value) ==
    \E i \in 4..(Len(response) - 3) :
        /\ response[i] = name /\ response[i + 1] = ": "
        /\ response[i + 2] = value /\ response[i + 3] = "\r\n"

---------------------------------------------------------------------------
(* The request handling pipeline *)

\* parse_request taking the first token for the path when there is no second
parse_request_first_token(data) ==
    IF ~from_utf8_ok(data) THEN Err("InvalidData")
    ELSE LET ls == lines(data) IN
         IF ls = <<>> THEN Err("InvalidData")
         ELSE LET tokens == split(ls[1], " ") IN
              IF Len(tokens) < 2 THEN Ok(tokens[1])
              ELSE Ok(tokens[2])

parse_request(data) ==
    IF ~from_utf8_ok(data) THEN Err("InvalidData")
    ELSE LET ls == lines(data) IN
         IF ls = <<>> THEN Err("InvalidData")
         ELSE LET tokens == split(ls[1], " ") IN
              IF Len(tokens) < 2 THEN Err("InvalidData")
              ELSE Ok(tokens[2])

prevent_directory_transversal(fs, base, requested) ==
    LET base_path == canonicalize(fs, split(base, "/")) IN
    IF ~base_path.ok THEN base_path
    ELSE LET trimmed == trim_start_matches(requested, "/")
             path == IF trimmed = <<>> THEN <<"index.html">> ELSE trimmed
             full_path == canonicalize(fs, join(base_path.val, path))
         IN  IF ~full_path.ok THEN full_path
             ELSE IF ~starts_with(full_path.val, base_path.val)
                  THEN Err("PermissionDenied")
                  ELSE full_path

get_modified_timestamp(fs, full_path) ==
    IF ~Exists(fs, full_path) THEN Err("NotFound")
    ELSE IF fs[full_path].mtime < 0 THEN Err("Other")
    ELSE Ok(fs[full_path].mtime)

get_content(fs, full_path, path) ==
    IF ~Exists(fs, full_path) THEN Err("NotFound")
    ELSE IF fs[full_path].kind = "file" THEN Ok(fs[full_path].content)
    ELSE LET title == <<"Index of: ">> \o path
             entries == read_dir(fs, full_path)
             links == [i \in 1..Len(entries) |->
                          <<"<a href=\"">> \o (path \o <<"/", entries[i]>>)
                              \o <<"\">", entries[i], "</a>">>]
             tags == IF entries = <<>> THEN <<"<p>It's empty.</p>">>
                     ELSE join_all(links, <<"<br/>">>)
         IN  Ok(html_boilerplate(title, tags))

\* caches: a function from resolved paths to entries
CacheEntry(content, timestamp) == [content |-> content, modified_timestamp |-> timestamp]
Insert(caches, key, entry) ==
    [k \in DOMAIN caches \cup {key} |-> IF k = key THEN entry ELSE caches[k]]
Remove(caches, key) == [k \in DOMAIN caches \ {key} |-> caches[k]]

\* get_content_from_cache with the timestamp comparison inverted
get_content_from_cache_inverted(caches, fs, full_path) ==
    IF full_path \notin DOMAIN caches
    THEN [ok |-> TRUE, some |-> FALSE, body |-> <<>>, err |-> "none", caches |-> caches]
    ELSE LET current_timestamp == get_modified_timestamp(fs, full_path) IN
         IF ~current_timestamp.ok
         THEN [ok |-> FALSE, some |-> FALSE, body |-> <<>>, err |-> current_timestamp.err,
               caches |-> IF not_found(current_timestamp.err)
                          THEN Remove(caches, full_path) ELSE caches]
         ELSE IF caches[full_path].modified_timestamp = current_timestamp.val
         THEN [ok |-> TRUE, some |-> FALSE, body |-> <<>>, err |-> "none", caches |-> caches]
         ELSE [ok |-> TRUE, some |-> TRUE, body |-> caches[full_path].content,
               err |-> "none", caches |-> caches]

\* result: Ok(Some(body)) is ok /\ some, Ok(None) is ok /\ ~some
get_content_from_cache(caches, fs, full_path) ==
    IF full_path \notin DOMAIN caches
    THEN [ok |-> TRUE, some |-> FALSE, body |-> <<>>, err |-> "none", caches |-> caches]
    ELSE LET current_timestamp == get_modified_timestamp(fs, full_path) IN
         IF ~current_timestamp.ok
         THEN [ok |-> FALSE, some |-> FALSE, body |-> <<>>, err |-> current_timestamp.err,
               caches |-> IF not_found(current_timestamp.err)
                          THEN Remove(caches, full_path) ELSE caches]
         ELSE IF caches[full_path].modified_timestamp # current_timestamp.val
         THEN [ok |-> TRUE, some |-> FALSE, body |-> <<>>, err |-> "none", caches |-> caches]
         ELSE [ok |-> TRUE, some |-> TRUE, body |-> caches[full_path].content,
               err |-> "none", caches |-> caches]

ErrorResponse(error) ==
    IF not_found(error)
    THEN build_response("404 Not Found", HtmlHeaders, not_found_html)
    ELSE build_response("500 Internal Server Error", HtmlHeaders,
                        internal_server_error_html)

\* The outcome of one run of the pipeline: the response bytes and the cache it
\* leaves, with what the run did (resolved path, cache hit, loader called).
Outcome(response, caches, full_path, hit, loaded) ==
    [response |-> response, caches |-> caches, full_path |-> full_path,
     hit |-> hit, loaded |-> loaded]

\* view: the filesystem as each step finds it (view.resolve, view.lookup,
\* view.load, view.store); the steps run one after another on one thread
\* while other processes may change the files
handle_request(data, base, caches, view) ==
    LET parsed == parse_request(data) IN
    IF ~parsed.ok
    THEN Outcome(build_response("400 Bad Request", HtmlHeaders, bad_request_html),
                 caches, <<"?">>, FALSE, FALSE)
    ELSE
    LET path == parsed.val
        resolved == prevent_directory_transversal(view.resolve, base, path) IN
    IF ~resolved.ok
    THEN Outcome(IF permission_denied(resolved.err)
                 THEN build_response("403 Forbidden", HtmlHeaders, forbidden_html)
                 ELSE ErrorResponse(resolved.err),
                 caches, <<"?">>, FALSE, FALSE)
    ELSE
    LET full_path == resolved.val
        cached == get_content_from_cache(caches, view.lookup, full_path) IN
    IF ~cached.ok
    THEN Outcome(ErrorResponse(cached.err), cached.caches, full_path, FALSE, FALSE)
    ELSE IF cached.some
    THEN Outcome(build_response("200 OK", <<>>, cached.body), cached.caches,
                 full_path, TRUE, FALSE)
    ELSE
    LET body == get_content(view.load, full_path, path) IN
    IF ~body.ok
    THEN Outcome(ErrorResponse(body.err), cached.caches, full_path, FALSE, TRUE)
    ELSE
    LET current_timestamp == get_modified_timestamp(view.store, full_path) IN
    IF ~current_timestamp.ok
    THEN Outcome(ErrorResponse(current_timestamp.err), cached.caches, full_path,
                 FALSE, TRUE)
    ELSE Outcome(build_response("200 OK", <<>>, body.val),
                 Insert(cached.caches, full_path,
                        CacheEntry(body.val, current_timestamp.val)),
                 full_path, FALSE, TRUE)

---------------------------------------------------------------------------
(* State *)

VARIABLES
    running,         \* the reactor loop has not returned
    events,          \* the events of the current batch not yet processed
    next_client_id,
    sessions,        \* id -> Session (response: None, or Some(bytes))
    registry,        \* the multiplexer: token -> interest
    caches,          \* resolved path -> Cache
    fs,              \* the filesystem
    turn,            \* how the latest wait returned and what the accept loop
                     \* of this turn has met so far (history, but for fault)
    hist,            \* id -> the request read, the bytes that had arrived, and
                     \* the pipeline runs so far (history)
    closed,          \* the connection closed latest, and how (history)
    last,            \* the latest pipeline run (history)
    touched          \* a file changed since the latest pipeline run ended (history)

vars == <<running, events, next_client_id, sessions, registry, caches,
          fs, turn, hist, closed, last, touched>>

reactor_vars == <<running, events, next_client_id, sessions, registry,
                  turn, hist, closed>>

\* poll: the result of the latest poll.poll; accepts: the sockets accepted in
\* the accept loop under way ("accepted": registered and inserted, "dropped":
\* registration failed); fault: an accept error that lasts as long as the
\* process does nothing about it (EMFILE: no descriptor left)
Turn(poll, accepts, fault) == [poll |-> poll, accepts |-> accepts, fault |-> fault]

None == [some |-> FALSE, val |-> <<>>]
Some(v) == [some |-> TRUE, val |-> v]

NoRun == [n |-> 0, data |-> <<>>, steady |-> TRUE, stale |-> FALSE, full_path |-> <<"?">>, response |-> <<>>,
          hit |-> FALSE, loaded |-> FALSE, lookup_stat |-> "no entry"]

---------------------------------------------------------------------------
(* The environment: other processes changing the served files *)

WithIndex(f, node) == [f EXCEPT ![IndexPath] = node]

\* srv/index.html is written, replaced or restored (with any modification
\* time, in whole seconds) or removed
Changes(f) ==
    ({WithIndex(f, FileNode(c, t)) : c \in Contents, t \in 0..MaxTime}
        \cup {WithIndex(f, NoNode)}) \ {f}

EnvChange ==
    /\ \E f \in Changes(fs) : fs' = f
    /\ touched' = TRUE
    /\ UNCHANGED <<reactor_vars, caches, last>>

EnvSecret ==
    /\ fs' = [fs EXCEPT ![SecretPath] =
                 IF Exists(fs, SecretPath) THEN NoNode ELSE FileNode(<<"top">>, 0)]
    /\ touched' = TRUE
    /\ UNCHANGED <<reactor_vars, caches, last>>

\* The filesystem as the four steps of one pipeline run find it, when another
\* process makes at most one change (to f2) right before step `at` (0: none)
Views(f) ==
    {[at |-> 0, resolve |-> f, lookup |-> f, load |-> f, store |-> f]}
    \cup {[at |-> at,
           resolve |-> f,
           lookup |-> IF at <= 1 THEN f2 ELSE f,
           load |-> IF at <= 2 THEN f2 ELSE f,
           store |-> f2] : at \in 1..3, f2 \in Changes(f)}

\* The views of a request handled by the reactor: no change, or the served
\* file removed before one of the steps (PipelineSpec explores every change)
ReactorViews(f) == {v \in Views(f) : v.at = 0 \/ v.store = WithIndex(f, NoNode)}

\* the record of one pipeline run; n tells one run from the next, steady
\* that no file changed during the run, stale that the cache held an entry
\* for the resolved path whose timestamp was not the file's when the
\* request arrived, lookup_stat what the stat of the cache lookup met
\* ("no entry": the lookup found no entry and made no stat; "none": no error)
Run(data, view, out) ==
    [n |-> IF last.n = 1 THEN 2 ELSE 1, data |-> data, steady |-> view.at = 0,
     stale |-> /\ out.full_path \in DOMAIN caches
               /\ Exists(view.resolve, out.full_path)
               /\ view.resolve[out.full_path].mtime
                      # caches[out.full_path].modified_timestamp,
     full_path |-> out.full_path, response |-> out.response,
     hit |-> out.hit, loaded |-> out.loaded,
     lookup_stat |-> IF out.full_path \in DOMAIN caches
                     THEN get_modified_timestamp(view.lookup, out.full_path).err
                     ELSE "no entry"]

---------------------------------------------------------------------------
(* Requests *)

Req(path) == <<"GET", " ">> \o path \o <<" ", "HTTP/1.0", "\r", "\n">>

\* "/", "/d" and "//d" (the same directory by two request paths), "/l", "/../secret"
Paths == {<<"/">>, <<"/", "d">>, <<"/", "/", "d">>, <<"/", "l">>,
          <<"/", "..", "/", "secret">>}

Malformed == {<<"GET">>, <<"\n">>, <<"GET", " ", "/", "0xFF">>}

Requests == {Req(p) : p \in Paths}

\* One run of the pipeline on a request of at least one byte
Serve(data, view) ==
    LET out == handle_request(data, base_dir, caches, view) IN
    /\ caches' = out.caches
    /\ fs' = view.store

Request ==
    /\ \E data \in Requests, view \in Views(fs) :
           /\ Serve(data, view)
           /\ last' = Run(data, view, handle_request(data, base_dir, caches, view))
    /\ touched' = FALSE
    /\ UNCHANGED reactor_vars

---------------------------------------------------------------------------
(* Sockets *)

Min(a, b) == IF a < b THEN a ELSE b

\* the read loop reading on past the end of the buffer
RECURSIVE read_loop_unbounded(_, _, _, _, _)
read_loop_unbounded(queue, chunk, ends, signals, data) ==
    IF signals > 0 THEN read_loop_unbounded(queue, chunk, ends, signals - 1, data)
    ELSE IF queue # <<>>
    THEN LET n == Min(chunk, Len(queue))
         IN  read_loop_unbounded(SubSeq(queue, n + 1, Len(queue)), chunk, ends,
                                 signals, data \o SubSeq(queue, 1, n))
    ELSE IF ends = "Eof" \/ would_block(ends)
    THEN [ok |-> TRUE, data |-> data, io |-> ends]
    ELSE [ok |-> FALSE, data |-> data, io |-> ends]

\* The read loop of handle_client.  queue: the bytes the socket holds;
\* chunk: the most one read returns; ends: what read returns once the queue
\* is drained ("Eof" is Ok(0)); signals: reads that fail with Interrupted.
RECURSIVE read_loop(_, _, _, _, _)
read_loop(queue, chunk, ends, signals, data) ==
    LET bytes_readed == Len(data)
        room == REQUEST_SIZE - bytes_readed
    IN  IF room = 0 THEN [ok |-> TRUE, data |-> data, io |-> "Full"]
        ELSE IF signals > 0 THEN read_loop(queue, chunk, ends, signals - 1, data)
        ELSE IF queue # <<>>
        THEN LET n == Min(Min(chunk, Len(queue)), room)
             IN  read_loop(SubSeq(queue, n + 1, Len(queue)), chunk, ends, signals,
                           data \o SubSeq(queue, 1, n))
        ELSE IF ends = "Eof" \/ would_block(ends)
        THEN [ok |-> TRUE, data |-> data, io |-> ends]
        ELSE [ok |-> FALSE, data |-> data, io |-> ends]

\* Write::write_all on the non-blocking socket.  space: the bytes the send
\* buffer takes; fault: what the first write fails with, if anything.
\* taken: the bytes handed to the socket.
RECURSIVE write_all(_, _, _, _)
write_all(buf, space, fault, taken) ==
    IF buf = <<>> THEN [ok |-> TRUE, err |-> "none", taken |-> taken]
    ELSE IF interrupted(fault) THEN write_all(buf, space, "none", taken)
    ELSE IF fault # "none" THEN [ok |-> FALSE, err |-> fault, taken |-> taken]
    ELSE IF space = 0 THEN [ok |-> FALSE, err |-> "WouldBlock", taken |-> taken]
    ELSE LET n == Min(Len(buf), space)
         IN  write_all(SubSeq(buf, n + 1, Len(buf)), space - n, "none",
                       taken \o SubSeq(buf, 1, n))

---------------------------------------------------------------------------
(* The reactor *)

Put(f, key, value) == [k \in DOMAIN f \cup {key} |-> IF k = key THEN value ELSE f[k]]
Drop(f, key) == [k \in DOMAIN f \ {key} |-> f[k]]

Session(response) == [response |-> response]

\* identifiers handed out whose connection is gone
Stale == (1..(next_client_id - 1)) \ DOMAIN registry

\* a readiness event carries the token and the readiness of the interest
\* registered; one for a connection that is gone carries what it last had
Event(token) == [token |-> token,
                 readable |-> token \in Stale \/ registry[token] = "READABLE",
                 writable |-> token \notin Stale /\ registry[token] = "WRITABLE"]

\* the batches one wait can deliver: each token once, among them tokens of
\* connections that are gone (the multiplexer may deliver spurious events)
Batches ==
    {b \in UNION {[1..n -> DOMAIN registry \cup Stale] : n \in 1..MaxBatch} :
        \A i, j \in 1..Len(b) : i # j => b[i] # b[j]}

\* poll.poll returns with events
Poll ==
    /\ running /\ events = <<>>
    /\ \E b \in Batches : events' = [i \in 1..Len(b) |-> Event(b[i])]
    /\ turn' = Turn("ready", <<>>, turn.fault)
    /\ UNCHANGED <<running, next_client_id, sessions, registry, caches, fs,
                   hist, closed, last, touched>>

\* run_server returning on an interrupted wait as on any other failure
PollInterrupted_returns ==
    /\ running /\ events = <<>>
    /\ running' = FALSE
    /\ turn' = Turn("Interrupted", <<>>, turn.fault)
    /\ UNCHANGED <<events, next_client_id, sessions, registry, caches, fs,
                   hist, closed, last, touched>>

\* poll.poll fails with Interrupted: `continue`
PollInterrupted ==
    /\ running /\ events = <<>>
    /\ turn' = Turn("Interrupted", <<>>, turn.fault)
    /\ UNCHANGED <<running, events, next_client_id, sessions, registry, caches,
                   fs, hist, closed, last, touched>>

\* poll.poll fails with another error: `return Err(error)`
PollError ==
    /\ running /\ events = <<>>
    /\ running' = FALSE
    /\ turn' = Turn("failed", <<>>, turn.fault)
    /\ UNCHANGED <<events, next_client_id, sessions, registry, caches, fs,
                   hist, closed, last, touched>>

\* How a connection ended: in which phase, on what request, holding what
\* response, with which bytes taken by the socket, on which error of
\* handle_client ("none": closed by handle_client itself) and after which
\* result of the last socket call
How(phase, request, response, taken, error, io) ==
    [phase |-> phase, request |-> request, response |-> response, sent |-> taken,
     error |-> error, io |-> io]

NoClose == [id |-> SERVER_TOKEN, runs |-> 0] @@ How("none", <<>>, None, <<>>, "none", "none")

\* what close_client leaves when the identifier is not in the table: the
\* unwrap of sessions.get_mut panics
Panicked(client_id) ==
    [id |-> client_id, runs |-> 0] @@ How("panicked", <<>>, None, <<>>, "none", "none")

\* close_client: the unwrap panics when the identifier is not in the table;
\* the deregistration's result is discarded; removing the session drops the
\* socket, and closing a socket ends its registration
close_client(client_id, deregistered, how) ==
    IF client_id \notin DOMAIN sessions
    THEN /\ closed' = Panicked(client_id)
         /\ UNCHANGED <<registry, sessions, hist>>
    ELSE /\ LET after == IF deregistered THEN Drop(registry, client_id) ELSE registry
            IN  registry' = Drop(after, client_id)
         /\ sessions' = Drop(sessions, client_id)
         /\ hist' = Drop(hist, client_id)
         /\ closed' = [id |-> client_id, runs |-> hist[client_id].runs] @@ how

\* sockets of this accept loop whose registration failed
Drops == Cardinality({i \in 1..Len(turn.accepts) : turn.accepts[i] = "dropped"})

\* accept_client inserting the session before it registers the socket, so
\* that a failed registration leaves the session in the table
accept_client_insert_first(outcome) ==
    /\ running /\ events # <<>> /\ Head(events).token = SERVER_TOKEN
    /\ outcome # "accept failing" => turn.fault = "none"
    /\ CASE outcome = "accepted" ->
              /\ next_client_id <= MaxClients
              /\ registry' = Put(registry, next_client_id, "READABLE")
              /\ sessions' = Put(sessions, next_client_id, Session(None))
              /\ hist' = Put(hist, next_client_id, [request |-> <<>>, arrived |-> <<>>, runs |-> 0])
              /\ next_client_id' = next_client_id + 1
              /\ turn' = [turn EXCEPT !.accepts = Append(@, "accepted")]
              /\ UNCHANGED events
         [] outcome = "register failed" ->
              /\ Drops < MaxDrops
              /\ sessions' = Put(sessions, next_client_id, Session(None))
              /\ hist' = Put(hist, next_client_id, [request |-> <<>>, arrived |-> <<>>, runs |-> 0])
              /\ turn' = [turn EXCEPT !.accepts = Append(@, "dropped")]
              /\ UNCHANGED <<registry, next_client_id, events>>
         [] outcome = "accept failed" ->
              UNCHANGED <<registry, sessions, hist, next_client_id, events, turn>>
         [] outcome = "accept failing" ->
              /\ turn' = [turn EXCEPT !.fault = "EMFILE"]
              /\ UNCHANGED <<registry, sessions, hist, next_client_id, events>>
         [] outcome = "WouldBlock" ->
              /\ events' = Tail(events)
              /\ turn' = [turn EXCEPT !.accepts = <<>>]
              /\ UNCHANGED <<registry, sessions, hist, next_client_id>>
    /\ UNCHANGED <<running, caches, fs, closed, last, touched>>

\* accept_client numbering from 1 again whenever the table is empty, so that
\* an identifier is handed out a second time
accept_client_recycles(outcome) ==
    /\ running /\ events # <<>> /\ Head(events).token = SERVER_TOKEN
    /\ outcome # "accept failing" => turn.fault = "none"
    /\ CASE outcome = "accepted" ->
              LET id == IF DOMAIN sessions = {} THEN 1 ELSE next_client_id IN
              /\ next_client_id <= MaxClients
              /\ registry' = Put(registry, id, "READABLE")
              /\ sessions' = Put(sessions, id, Session(None))
              /\ hist' = Put(hist, id, [request |-> <<>>, arrived |-> <<>>, runs |-> 0])
              /\ next_client_id' = id + 1
              /\ turn' = [turn EXCEPT !.accepts = Append(@, "accepted")]
              /\ UNCHANGED events
         [] outcome = "register failed" ->
              /\ Drops < MaxDrops
              /\ turn' = [turn EXCEPT !.accepts = Append(@, "dropped")]
              /\ UNCHANGED <<registry, sessions, hist, next_client_id, events>>
         [] outcome = "accept failed" ->
              UNCHANGED <<registry, sessions, hist, next_client_id, events, turn>>
         [] outcome = "accept failing" ->
              /\ turn' = [turn EXCEPT !.fault = "EMFILE"]
              /\ UNCHANGED <<registry, sessions, hist, next_client_id, events>>
         [] outcome = "WouldBlock" ->
              /\ events' = Tail(events)
              /\ turn' = [turn EXCEPT !.accepts = <<>>]
              /\ UNCHANGED <<registry, sessions, hist, next_client_id>>
    /\ UNCHANGED <<running, caches, fs, closed, last, touched>>

\* One call of accept_client in the accept loop of a listening-socket event,
\* with what the loop does on its result: break on WouldBlock, go round again
\* on anything else.  An accept that fails leaves the pending connection (if
\* any) where it is; "accept failing" is a failure that every later accept
\* repeats (EMFILE while the process closes no descriptor).
accept_client(outcome) ==
    /\ running /\ events # <<>> /\ Head(events).token = SERVER_TOKEN
    /\ outcome # "accept failing" => turn.fault = "none"
    /\ CASE outcome = "accepted" ->
              /\ next_client_id <= MaxClients
              /\ registry' = Put(registry, next_client_id, "READABLE")
              /\ sessions' = Put(sessions, next_client_id, Session(None))
              /\ hist' = Put(hist, next_client_id, [request |-> <<>>, arrived |-> <<>>, runs |-> 0])
              /\ next_client_id' = next_client_id + 1
              /\ turn' = [turn EXCEPT !.accepts = Append(@, "accepted")]
              /\ UNCHANGED events
         [] outcome = "register failed" ->
              \* the accepted socket is dropped with the error
              /\ Drops < MaxDrops
              /\ turn' = [turn EXCEPT !.accepts = Append(@, "dropped")]
              /\ UNCHANGED <<registry, sessions, hist, next_client_id, events>>
         [] outcome = "accept failed" ->
              UNCHANGED <<registry, sessions, hist, next_client_id, events, turn>>
         [] outcome = "accept failing" ->
              /\ turn' = [turn EXCEPT !.fault = "EMFILE"]
              /\ UNCHANGED <<registry, sessions, hist, next_client_id, events>>
         [] outcome = "WouldBlock" ->
              /\ events' = Tail(events)
              /\ turn' = [turn EXCEPT !.accepts = <<>>]
              /\ UNCHANGED <<registry, sessions, hist, next_client_id>>
    /\ UNCHANGED <<running, caches, fs, closed, last, touched>>

AcceptOutcomes ==
    {"accepted", "register failed", "accept failed", "accept failing", "WouldBlock"}

Accept == \E outcome \in AcceptOutcomes : accept_client(outcome)

\* a request longer than the buffer: a request line and REQUEST_SIZE more bytes
Long == Req(<<"/">>) \o [i \in 1..REQUEST_SIZE |-> "x"]

\* what peers send; the empty queue is a peer that sent nothing
PeerRequests ==
    {<<>>, Req(<<"/">>), Req(<<"/", "..", "/", "secret">>), Long} \cup Malformed

ReadEnds == {"Eof", "WouldBlock", "ConnectionReset"}
WriteFaults == {"none", "Interrupted", "BrokenPipe"}

\* read in pieces after a signal (one byte at a time, or 1000 at a time when
\* more than the buffer's size has arrived), or all at once
ReadModes(queue) ==
    {[chunk |-> IF Len(queue) > REQUEST_SIZE THEN 1000 ELSE 1, signals |-> 1],
     [chunk |-> REQUEST_SIZE, signals |-> 0]}

\* how much of buf the send buffer takes: nothing, all but a byte, all
Spaces(buf) == {0, Len(buf) - 1, Len(buf)}

\* handle_client without the check of bytes_readed, handing an empty request
\* to the pipeline
handle_readable_serves_empty(client_id, queue, mode, ends) ==
    LET read == read_loop(queue, mode.chunk, ends, mode.signals, <<>>)
        data == read.data
        failed(error) ==
            /\ \E deregistered \in BOOLEAN :
                   close_client(client_id, deregistered,
                                How("AwaitingRequest", queue, None, <<>>, error, read.io))
            /\ UNCHANGED <<caches, fs>>
    IN  IF ~read.ok THEN failed(read.io)
        ELSE \/ failed("Reregister")
             \/ \E view \in ReactorViews(fs) :
                   LET out == handle_request(data, base_dir, caches, view) IN
                   /\ registry' = Put(registry, client_id, "WRITABLE")
                   /\ Serve(data, view)
                   /\ sessions' = Put(sessions, client_id, Session(Some(out.response)))
                   /\ hist' = [hist EXCEPT ![client_id] =
                                  [request |-> data, arrived |-> queue, runs |-> @.runs + 1]]
                   /\ UNCHANGED closed

\* handle_client storing the response without reregistering the socket for
\* write-readiness
handle_readable_stays_readable(client_id, queue, mode, ends) ==
    LET read == read_loop(queue, mode.chunk, ends, mode.signals, <<>>)
        data == read.data
        bytes_readed == Len(data)
        failed(error) ==
            /\ \E deregistered \in BOOLEAN :
                   close_client(client_id, deregistered,
                                How("AwaitingRequest", queue, None, <<>>, error, read.io))
            /\ UNCHANGED <<caches, fs>>
    IN  IF ~read.ok THEN failed(read.io)
        ELSE IF bytes_readed = 0 THEN failed("Other")
        ELSE \E view \in ReactorViews(fs) :
                   LET out == handle_request(data, base_dir, caches, view) IN
                   /\ UNCHANGED registry
                   /\ Serve(data, view)
                   /\ sessions' = Put(sessions, client_id, Session(Some(out.response)))
                   /\ hist' = [hist EXCEPT ![client_id] =
                                  [request |-> data, arrived |-> queue, runs |-> @.runs + 1]]
                   /\ UNCHANGED closed

\* handle_client on a readable event, with the close_client run_server makes
\* when it returns an error
handle_readable(client_id, queue, mode, ends) ==
    LET read == read_loop(queue, mode.chunk, ends, mode.signals, <<>>)
        data == read.data
        bytes_readed == Len(data)
        failed(error) ==
            /\ \E deregistered \in BOOLEAN :
                   close_client(client_id, deregistered,
                                How("AwaitingRequest", queue, None, <<>>, error, read.io))
            /\ UNCHANGED <<caches, fs>>
    IN  IF ~read.ok THEN failed(read.io)
        ELSE IF bytes_readed = 0 THEN failed("Other")
        ELSE \/ failed("Reregister")
             \/ \E view \in ReactorViews(fs) :
                   LET out == handle_request(data, base_dir, caches, view) IN
                   /\ registry' = Put(registry, client_id, "WRITABLE")
                   /\ Serve(data, view)
                   /\ sessions' = Put(sessions, client_id, Session(Some(out.response)))
                   /\ hist' = [hist EXCEPT ![client_id] =
                                  [request |-> data, arrived |-> queue, runs |-> @.runs + 1]]
                   /\ UNCHANGED closed

\* handle_client keeping the connection for another request after a
\* complete write
handle_writable_keep_alive(client_id, space, fault) ==
    LET response == sessions[client_id].response
        written == IF response.some
                   THEN write_all(response.val, space, fault, <<>>)
                   ELSE [ok |-> TRUE, err |-> "none", taken |-> <<>>]
    IN  IF written.ok
        THEN /\ registry' = Put(registry, client_id, "READABLE")
             /\ sessions' = Put(sessions, client_id, Session(None))
             /\ UNCHANGED <<caches, fs, hist, closed>>
        ELSE /\ \E deregistered \in BOOLEAN :
                    close_client(client_id, deregistered,
                                 How("AwaitingWrite", hist[client_id].request, response,
                                     written.taken, written.err, written.err))
             /\ UNCHANGED <<caches, fs>>

\* handle_client on a writable event, with the close_client run_server makes
\* when it returns an error
handle_writable(client_id, space, fault) ==
    LET response == sessions[client_id].response
        written == IF response.some
                   THEN write_all(response.val, space, fault, <<>>)
                   ELSE [ok |-> TRUE, err |-> "none", taken |-> <<>>]
    IN  \* write_all failed: run_server closes; otherwise flush (which does
        \* nothing on a TCP stream) and handle_client closes
        /\ \E deregistered \in BOOLEAN :
               close_client(client_id, deregistered,
                            How("AwaitingWrite", hist[client_id].request, response,
                                written.taken, written.err, written.err))
        /\ UNCHANGED <<caches, fs>>

\* run_server closing the connection when handle_client finds no session for
\* the event's identifier, as if handle_client returned an error for it
ClientEvent_closes_absent ==
    /\ running /\ events # <<>> /\ Head(events).token # SERVER_TOKEN
    /\ events' = Tail(events)
    /\ LET event == Head(events)
           client_id == event.token
       IN  IF client_id \notin DOMAIN sessions
           THEN /\ close_client(client_id, TRUE, NoClose)
                /\ UNCHANGED <<caches, fs>>
           ELSE IF event.readable
           THEN \E queue \in PeerRequests, ends \in ReadEnds :
                   \E mode \in ReadModes(queue) :
                     handle_readable(client_id, queue, mode, ends)
           ELSE IF event.writable
           THEN \E space \in Spaces(sessions[client_id].response.val),
                   fault \in WriteFaults :
                     handle_writable(client_id, space, fault)
           ELSE UNCHANGED <<sessions, registry, caches, fs, hist, closed>>
    /\ running' = (closed'.phase # "panicked")
    /\ UNCHANGED <<next_client_id, turn, last, touched>>

\* One client event of the batch: handle_client, and close_client when it
\* returns an error.  A panic of close_client ends the process.
ClientEvent ==
    /\ running /\ events # <<>> /\ Head(events).token # SERVER_TOKEN
    /\ events' = Tail(events)
    /\ LET event == Head(events)
           client_id == event.token
       IN  IF client_id \notin DOMAIN sessions
           THEN UNCHANGED <<sessions, registry, caches, fs, hist, closed>>
           ELSE IF event.readable
           THEN \E queue \in PeerRequests, ends \in ReadEnds :
                   \E mode \in ReadModes(queue) :
                     handle_readable(client_id, queue, mode, ends)
           ELSE IF event.writable
           THEN \E space \in Spaces(sessions[client_id].response.val),
                   fault \in WriteFaults :
                     handle_writable(client_id, space, fault)
           ELSE UNCHANGED <<sessions, registry, caches, fs, hist, closed>>
    /\ running' = (closed'.phase # "panicked")
    /\ UNCHANGED <<next_client_id, turn, last, touched>>

---------------------------------------------------------------------------
(* Specifications *)

InitialNodes == {NoNode} \cup {FileNode(c, 0) : c \in Contents}

Init ==
    /\ running = TRUE
    /\ events = <<>>
    /\ next_client_id = 1
    /\ sessions = <<>>
    /\ registry = [t \in {SERVER_TOKEN} |-> "READABLE"]
    /\ caches = <<>>
    /\ fs \in {FsWith(index, secret) : index \in InitialNodes,
                                   secret \in {NoNode, FileNode(<<"top">>, 0)}}
    /\ turn = Turn("none", <<>>, "none")
    /\ hist = <<>>
    /\ closed = NoClose
    /\ last = NoRun
    /\ touched = FALSE

\* the server and its peers; other processes change the served files while
\* a request is handled (Views)
Next ==
    \/ Poll
    \/ PollInterrupted
    \/ PollError
    \/ Accept
    \/ ClientEvent

Spec == Init /\ [][Next]_vars

\* the pipeline alone, run on one request after another
PipelineNext ==
    \/ Request
    \/ EnvChange
    \/ EnvSecret

PipelineSpec == Init /\ [][PipelineNext]_vars

---------------------------------------------------------------------------
(* Properties of the reactor (Spec) *)

\* the reactor is about to wait: no event of the last batch is left
AtWait == running /\ events = <<>>

WasClosed == closed.id # SERVER_TOKEN

\* C1: at every wait point the client identifiers registered with the
\* multiplexer are exactly the keys of the connection table
C1_RegisteredIsTable ==
    AtWait => DOMAIN registry \ {SERVER_TOKEN} = DOMAIN sessions

\* a wait point with a connection in the table, after another connection
\* was closed because its reregistration failed
C1_Witness ==
    /\ AtWait /\ DOMAIN sessions # {}
    /\ WasClosed /\ closed.error = "Reregister"

\* C2: a connection removed in AwaitingWrite whose write did not fail with a
\* non-transient error had every byte of its stored response handed to the
\* socket
C2_WrittenFullyBeforeRemoval ==
    (/\ WasClosed /\ closed.phase = "AwaitingWrite" /\ closed.response.some
     /\ closed.error \in {"none", "WouldBlock", "Interrupted"})
        => closed.sent = closed.response.val

\* C3 (states): the pipeline has run at most once for a connection, a
\* connection holds a response exactly when it has run, identifiers in the
\* table were all handed out, and a closed connection is not in the table
C3_OncePerConnection ==
    /\ \A id \in DOMAIN sessions :
          /\ hist[id].runs <= 1
          /\ sessions[id].response.some <=> hist[id].runs = 1
          /\ id < next_client_id
    /\ closed.runs <= 1
    /\ WasClosed => closed.id \notin DOMAIN sessions

\* C3 (steps): a stored response is never replaced or dropped while the
\* connection stays; processing a writable event removes and deregisters the
\* connection; only the next identifier enters the table
C3_NeverBack ==
    /\ \A id \in DOMAIN sessions :
          /\ sessions[id].response.some
                => (id \notin DOMAIN sessions' \/ sessions'[id] = sessions[id])
          /\ (/\ events # <<>> /\ events' = Tail(events)
              /\ Head(events).token = id /\ Head(events).writable)
                => (id \notin DOMAIN sessions' /\ id \notin DOMAIN registry')
    /\ DOMAIN sessions' \ DOMAIN sessions \subseteq {next_client_id}

\* C3: each connection goes AwaitingRequest -> AwaitingWrite -> removed and
\* never back: one pipeline run and one response at most per connection, and
\* the first writable event processed removes it, whether the write succeeded
\* or failed
C3_Lifecycle == [](C3_OncePerConnection) /\ [][C3_NeverBack]_vars

\* a connection was removed on a failed write while another one holds its
\* response
C3_Witness ==
    /\ WasClosed /\ closed.phase = "AwaitingWrite" /\ closed.error = "BrokenPipe"
    /\ closed.runs = 1
    /\ \E id \in DOMAIN sessions : sessions[id].response.some

\* the latest connection was closed on a transient socket condition alone: a
\* read that would block before any byte, or a write that would block
TransientClose ==
    /\ WasClosed
    /\ \/ closed.phase = "AwaitingRequest" /\ closed.error = "Other"
          /\ would_block(closed.io)
       \/ closed.phase = "AwaitingWrite"
          /\ (would_block(closed.error) \/ interrupted(closed.error))

\* C10: a would-block or interrupted socket condition never by itself gets a
\* connection deregistered and removed
C10_TransientNeverCloses == ~TransientClose

\* the response is the 400 page: status line, Content-Type header, HTML body
IsBadRequest(response) ==
    /\ StatusOf(response) = "400 Bad Request"
    /\ HasHeader(response, "Content-Type", "text/html")
    /\ BodyOf(response) = bad_request_html

\* C9 as claimed: every connection whose request is malformed or empty, read
\* without a socket error, is answered 400
C9_MalformedGets400 ==
    /\ \A id \in DOMAIN sessions :
          (hist[id].runs = 1 /\ hist[id].request \in Malformed)
              => IsBadRequest(sessions[id].response.val)
    /\ (/\ WasClosed /\ closed.phase = "AwaitingRequest"
        /\ closed.request \in Malformed \cup {<<>>}
        /\ closed.io = "Eof" /\ closed.error # "Reregister")
          => (closed.response.some /\ IsBadRequest(closed.response.val))

\* C9 (states): the pipeline never runs on an empty request; a malformed
\* request of at least one byte gets the 400 page; a connection whose peer
\* sent nothing is removed with no response and no byte written
C9_BadRequestPage ==
    /\ \A id \in DOMAIN sessions :
          hist[id].runs = 1 =>
              /\ hist[id].request # <<>>
              /\ hist[id].request \in Malformed
                    => IsBadRequest(sessions[id].response.val)
    /\ (WasClosed /\ closed.phase = "AwaitingRequest" /\ closed.request = <<>>)
          => (~closed.response.some /\ closed.sent = <<>> /\ closed.runs = 0)

\* C9 (steps): storing the response to a malformed request leaves the cache
\* as it was
C9_CacheKept ==
    \A id \in DOMAIN sessions \cap DOMAIN sessions' :
        (/\ ~sessions[id].response.some /\ sessions'[id].response.some
         /\ hist'[id].request \in Malformed)
            => caches' = caches

\* C9, amended: a malformed request of at least one byte yields the 400 page
\* and leaves the cache unchanged; an empty request never reaches the
\* pipeline and its connection is removed without a response
C9_Amended == [](C9_BadRequestPage) /\ [][C9_CacheKept]_vars

\* a connection holds the 400 page in answer to a malformed request, over a
\* cache that an earlier connection filled
C9_Witness ==
    /\ \E id \in DOMAIN sessions :
          /\ hist[id].runs = 1 /\ hist[id].request \in Malformed
          /\ sessions[id].response.some
          /\ IsBadRequest(sessions[id].response.val)
    /\ DOMAIN caches # {}

---------------------------------------------------------------------------
(* Properties of the pipeline (PipelineSpec) *)

Ran == last.n # 0

\* no file changed during the latest run nor since it ended
Quiet == Ran /\ last.steady /\ ~touched

\* requests for paths that lead out of the root: by "..", by the symlink
Outside == {Req(<<"/", "..", "/", "secret">>), Req(<<"/", "l">>)}

\* C4: a request whose path resolves outside the root is answered 403
\* Forbidden, whatever the filesystem holds there, and caches nothing
C4_OutsideIsForbidden ==
    (Ran /\ last.data \in Outside) =>
        /\ StatusOf(last.response) = "403 Forbidden"
        /\ SecretPath \notin DOMAIN caches

\* the pipeline ran on a request: n moves with every run
RequestStep == last'.n # last.n

\* C5 (steps): when a request answered 200 is repeated and no file changed
\* during the first run, since it, or during the second, the answer is 200
\* with the same body, from the cache, the loader is not called and the
\* cache stays as it was
C5_Repeat ==
    (/\ RequestStep /\ Ran /\ StatusOf(last.response) = "200 OK"
     /\ last.steady /\ last'.data = last.data /\ ~touched /\ last'.steady)
        => /\ StatusOf(last'.response) = "200 OK"
           /\ BodyOf(last'.response) = BodyOf(last.response)
           /\ last'.hit /\ ~last'.loaded
           /\ caches' = caches

\* C5: two consecutive requests for a path with no file modification in
\* between get byte-identical 200 bodies, the second from the cache
C5_SecondIsCacheHit == [][C5_Repeat]_vars

\* the latest run was a cache hit answered 200 with no file changing
C5_Witness ==
    /\ Quiet /\ last.hit /\ StatusOf(last.response) = "200 OK"
    /\ last.full_path \in DOMAIN caches

\* C6: a request that finds a cache entry whose timestamp is not the file's
\* is a miss: the file is loaded, the body is the file's content and the
\* entry becomes that content with the file's timestamp
C6_StaleEntryIsReloaded ==
    (Quiet /\ last.stale /\ fs[last.full_path].kind = "file") =>
        /\ ~last.hit /\ last.loaded
        /\ StatusOf(last.response) = "200 OK"
        /\ BodyOf(last.response) = fs[last.full_path].content
        /\ last.full_path \in DOMAIN caches
        /\ caches[last.full_path] =
              CacheEntry(fs[last.full_path].content, fs[last.full_path].mtime)

\* the latest run found a stale entry and loaded the file
C6_Witness == Quiet /\ last.stale /\ last.loaded

\* C7: a cache entry whose timestamp is the file's holds the file's
\* content, and a cache hit returns the file's current content
C7_EntryMatchesFile ==
    /\ \A fp \in DOMAIN caches :
          (/\ Exists(fs, fp) /\ fs[fp].kind = "file"
           /\ fs[fp].mtime = caches[fp].modified_timestamp)
              => caches[fp].content = fs[fp].content
    /\ (Quiet /\ last.hit /\ fs[last.full_path].kind = "file")
          => BodyOf(last.response) = fs[last.full_path].content

\* C8 (states): a request for a path that does not exist is answered 404
\* and leaves no cache entry for the path
C8_MissingLeavesNoEntry ==
    (Quiet /\ last.data = Req(<<"/">>) /\ ~Exists(fs, IndexPath))
        => /\ StatusOf(last.response) = "404 Not Found"
           /\ IndexPath \notin DOMAIN caches

\* C8 (steps): when the file exists by the next request for the path, it
\* is answered 200 with the file's content and the entry is created
C8_CreatedIsServed ==
    (/\ RequestStep /\ Ran /\ last.data = Req(<<"/">>)
     /\ StatusOf(last.response) = "404 Not Found"
     /\ last'.data = Req(<<"/">>) /\ last'.steady /\ Exists(fs, IndexPath))
        => /\ StatusOf(last'.response) = "200 OK"
           /\ BodyOf(last'.response) = fs[IndexPath].content
           /\ IndexPath \in DOMAIN caches'

\* C8: a request for a path that does not exist is answered 404 and leaves
\* the cache without an entry for the path; once the file is created, the
\* next request for it is answered 200 with its content and creates the entry
C8_MissingThenCreated == [](C8_MissingLeavesNoEntry) /\ [][C8_CreatedIsServed]_vars

---------------------------------------------------------------------------
(* Properties of the accept loop and of the wait (Spec) *)

\* the reactor is in the accept loop of a listening-socket event
InAcceptLoop == running /\ events # <<>> /\ Head(events).token = SERVER_TOKEN

\* the step is a call of accept_client whose registration failed
DropStep == turn'.accepts = Append(turn.accepts, "dropped")

\* the step is a call of accept_client that went through
AcceptStep == turn'.accepts = Append(turn.accepts, "accepted")

\* C11 (steps): a failed registration leaves the table, the registrations
\* and the next identifier as they were and the reactor in the accept loop;
\* a connection accepted after it in the same loop is inserted under the
\* identifier the dropped socket did not take, registered for reading
C11_Step ==
    /\ DropStep =>
          /\ sessions' = sessions /\ registry' = registry
          /\ next_client_id' = next_client_id
          /\ InAcceptLoop' /\ events' = events
    /\ (AcceptStep /\ Drops > 0) =>
          /\ next_client_id \notin DOMAIN sessions
          /\ DOMAIN sessions' = DOMAIN sessions \cup {next_client_id}
          /\ ~sessions'[next_client_id].response.some
          /\ next_client_id \in DOMAIN registry'
          /\ registry'[next_client_id] = "READABLE"

\* C11: when registering an accepted socket fails the socket is dropped,
\* not inserted, no identifier is consumed and the accept loop goes on;
\* connections accepted later in the same turn are registered and inserted
C11_DroppedAndOn == [][C11_Step]_vars

\* an accept loop in which a registration failed and the next connection
\* was accepted as number 1
C11_Witness ==
    /\ InAcceptLoop /\ turn.accepts = <<"dropped", "accepted">>
    /\ DOMAIN sessions = {1} /\ next_client_id = 2

\* C12 (states): the next identifier is at least 1, and every identifier in
\* the table, and the one of the connection closed latest, is at least 1,
\* below the next identifier and not the listening socket's token
C12_Issued ==
    /\ next_client_id >= 1
    /\ turn.poll = "none" => (next_client_id = 1 /\ DOMAIN sessions = {})
    /\ \A id \in DOMAIN sessions :
          id # SERVER_TOKEN /\ 1 <= id /\ id < next_client_id
    /\ WasClosed => (1 <= closed.id /\ closed.id < next_client_id)

\* C12 (steps): the next identifier never goes down; a connection enters the
\* table under the next identifier, which no connection had before, and the
\* next identifier then goes up by one
C12_Step ==
    /\ next_client_id' >= next_client_id
    /\ \A id \in DOMAIN sessions' \ DOMAIN sessions :
          /\ id = next_client_id
          /\ next_client_id' = id + 1

\* C12: identifiers are handed out in increasing order of acceptance from 1,
\* none is handed out twice, not even after its connection was closed, and
\* none is the listening socket's token 0
C12_NeverReused == [](C12_Issued) /\ [][C12_Step]_vars

\* the second connection is in the table after the first was closed
C12_Witness ==
    /\ WasClosed /\ closed.id = 1
    /\ DOMAIN sessions = {2} /\ next_client_id = 3

\* the step is a wait that failed with Interrupted, or with another error
InterruptedStep == turn'.poll = "Interrupted" /\ turn.poll # "Interrupted"
FailedStep == turn'.poll = "failed" /\ turn.poll # "failed"

\* C13 (states): the reactor loop has returned exactly when a wait failed
\* with an error other than Interrupted
C13_ReturnedOnFailure == ~running <=> turn.poll = "failed"

\* C13 (steps): an interrupted wait leaves the table, the registrations, the
\* cache and the next identifier as they were, with the reactor at the wait
\* again; a wait failing otherwise ends the loop; once it has ended nothing
\* changes any more
C13_Step ==
    /\ InterruptedStep =>
          /\ AtWait /\ AtWait'
          /\ sessions' = sessions /\ registry' = registry
          /\ caches' = caches /\ next_client_id' = next_client_id
    /\ FailedStep =>
          /\ AtWait /\ ~running'
          /\ sessions' = sessions /\ caches' = caches
    /\ ~running => UNCHANGED vars

\* C13: a wait that fails with Interrupted is retried with the connection
\* table, the cache and the next identifier unchanged; any other failure of
\* the wait ends the reactor loop, which returns the error
C13_InterruptedRetried == [](C13_ReturnedOnFailure) /\ [][C13_Step]_vars

\* a wait was interrupted while a connection holds its response over a cache
\* that is not empty
C13_Witness ==
    /\ AtWait /\ turn.poll = "Interrupted"
    /\ \E id \in DOMAIN sessions : sessions[id].response.some
    /\ DOMAIN caches # {}

\* C14: the accept loop of a listening-socket event ends within its turn
\* whatever accept returns: while the reactor is in the loop some step still
\* changes the state, so the loop is never left going round in one state
\* with the batch's client events unprocessed and the wait never reached
C14_AcceptLoopEnds == InAcceptLoop => ENABLED <<Next>>_vars

---------------------------------------------------------------------------
(* Properties of client events (Spec) *)

\* the step processes the client event at the head of the batch
ClientStep == events # <<>> /\ events' = Tail(events) /\ Head(events).token # SERVER_TOKEN

\* the step closes a connection whose read got no byte or failed
ReadCloseStep ==
    /\ closed' # closed /\ closed'.phase = "AwaitingRequest"
    /\ closed'.error # "Reregister"

\* C15 (states): a connection closed on a readable event that got no byte, or
\* whose read failed, never had the pipeline run, held no response and had
\* no byte written to it, and is gone from the table and the registrations
C15_ClosedUnserved ==
    (/\ WasClosed /\ closed.phase = "AwaitingRequest"
     /\ closed.error # "Reregister") =>
        /\ closed.runs = 0 /\ ~closed.response.some /\ closed.sent = <<>>
        /\ closed.id \notin DOMAIN sessions
        /\ closed.id \notin DOMAIN registry

\* C15 (steps): such a close leaves the cache and the files as they are and
\* removes that connection alone; a connection still in the table after its
\* readable event was processed had at least one byte read and no read error
C15_Step ==
    /\ ReadCloseStep =>
          /\ ClientStep /\ Head(events).readable
          /\ closed'.id = Head(events).token
          /\ caches' = caches /\ fs' = fs
          /\ sessions' = Drop(sessions, closed'.id)
          /\ registry' = Drop(registry, closed'.id)
    /\ \A id \in DOMAIN sessions \cap DOMAIN sessions' :
          (ClientStep /\ Head(events).token = id /\ Head(events).readable)
              => /\ hist'[id].request # <<>>
                 /\ sessions'[id].response.some

\* C15: in AwaitingRequest a readable event on which no byte is obtained, or
\* on which the read fails with a non-transient error, removes and
\* deregisters the connection without running the pipeline, changing the
\* cache or writing a byte of response
C15_TeardownWithoutPipeline == [](C15_ClosedUnserved) /\ [][C15_Step]_vars

\* a peer that sent nothing was closed at end of stream, over a cache that
\* is not empty and beside another connection
C15_Witness ==
    /\ WasClosed /\ closed.phase = "AwaitingRequest"
    /\ closed.error = "Other" /\ closed.io = "Eof" /\ closed.request = <<>>
    /\ DOMAIN caches # {} /\ DOMAIN sessions # {}

\* the first REQUEST_SIZE bytes of what had arrived
Prefix(queue) == SubSeq(queue, 1, Min(Len(queue), REQUEST_SIZE))

\* C16 (states): what the pipeline was handed is not empty, no longer than
\* REQUEST_SIZE and the beginning of what had arrived; the connection then
\* holds its response and is registered for writing, and no readable event
\* is left for it
C16_Handed ==
    /\ \A id \in DOMAIN sessions :
          hist[id].runs = 1 =>
              /\ hist[id].request # <<>>
              /\ Len(hist[id].request) <= REQUEST_SIZE
              /\ hist[id].request = Prefix(hist[id].arrived)
              /\ sessions[id].response.some
              /\ id \in DOMAIN registry /\ registry[id] = "WRITABLE"
              /\ \A i \in 1..Len(events) :
                    events[i].token = id => ~events[i].readable
    /\ closed.runs = 1 => Len(closed.request) <= REQUEST_SIZE

\* C16 (steps): a connection that stays in the table over its readable event
\* has moved to AwaitingWrite; what was read for a connection in
\* AwaitingWrite never changes afterwards
C16_ReadOnce ==
    \A id \in DOMAIN sessions \cap DOMAIN sessions' :
        /\ (ClientStep /\ Head(events).token = id /\ Head(events).readable)
              => (hist'[id].runs = 1 /\ registry'[id] = "WRITABLE")
        /\ sessions[id].response.some => hist'[id] = hist[id]

\* a connection removed in AwaitingRequest had no byte read
C16_NoCloseAfterBytes ==
    (WasClosed /\ closed.phase = "AwaitingRequest") => closed.request = <<>>

\* C16 as claimed: the read loop ends and hands the pipeline at most
\* REQUEST_SIZE bytes, the first that arrived; whenever at least one byte was
\* read the connection moves to AwaitingWrite in the same turn, and no
\* request bytes are read for it in a later turn
C16_ReadThenWrite ==
    [](C16_Handed /\ C16_NoCloseAfterBytes) /\ [][C16_ReadOnce]_vars

\* a connection removed in AwaitingRequest after at least one byte was read
\* met a read error that is not transient, or its reregistration failed, and
\* the pipeline did not run for it
C16_CloseAfterBytes ==
    (WasClosed /\ closed.phase = "AwaitingRequest" /\ closed.request # <<>>) =>
        /\ closed.runs = 0 /\ ~closed.response.some
        /\ \/ closed.error = "Reregister"
           \/ /\ closed.error = closed.io
              /\ ~would_block(closed.io) /\ ~interrupted(closed.io)
              /\ closed.io \notin {"Eof", "Full"}

\* C16, amended: as claimed, but a connection for which bytes were read
\* moves to AwaitingWrite only when no read failed with a non-transient
\* error and its reregistration succeeded; otherwise it is removed in that
\* turn with the pipeline not run
C16_Amended == [](C16_Handed /\ C16_CloseAfterBytes) /\ [][C16_ReadOnce]_vars

\* a connection whose peer had sent more than REQUEST_SIZE bytes holds the
\* response to the first REQUEST_SIZE of them
C16_Witness ==
    \E id \in DOMAIN sessions :
        /\ hist[id].runs = 1 /\ sessions[id].response.some
        /\ Len(hist[id].arrived) > REQUEST_SIZE
        /\ Len(hist[id].request) = REQUEST_SIZE
        /\ StatusOf(sessions[id].response.val) \in {"200 OK", "404 Not Found"}

---------------------------------------------------------------------------
(* Properties of the cache lookup and of listings (PipelineSpec) *)

\* C17 (states): when the stat of the cache lookup failed with not-found the
\* answer is 404 and the entry is gone; when it failed otherwise the answer
\* is 500 and the entry is still there; the loader was not called either way
C17_LookupStatFailed ==
    /\ (Ran /\ not_found(last.lookup_stat)) =>
          /\ StatusOf(last.response) = "404 Not Found"
          /\ last.full_path \notin DOMAIN caches
          /\ ~last.loaded /\ ~last.hit
    /\ (Ran /\ last.lookup_stat \notin {"no entry", "none", "NotFound"}) =>
          /\ StatusOf(last.response) = "500 Internal Server Error"
          /\ last.full_path \in DOMAIN caches
          /\ ~last.loaded /\ ~last.hit

\* C17 (steps): a request for index.html made once the cached file has been
\* deleted, no file changing meanwhile, is answered 404 and leaves no entry
\* for it
C17_DeletedStep ==
    (/\ RequestStep /\ last'.data = Req(<<"/">>) /\ last'.steady
     /\ IndexPath \in DOMAIN caches /\ ~Exists(fs, IndexPath))
        => /\ StatusOf(last'.response) = "404 Not Found"
           /\ IndexPath \notin DOMAIN caches'

\* C17: in the cache lookup a stat failing with not-found evicts the entry
\* and gives 404, any other stat failure gives 500 and keeps the entry, the
\* loader not being called; so after a cached file is deleted the next
\* request for it gets 404 and the cache holds no entry for it any more
C17_StaleEntryEvicted == [](C17_LookupStatFailed) /\ [][C17_DeletedStep]_vars

\* the href values of the links of a listing, as a browser reads them off
\* the body: what stands between each <a href=" and the next ">
Hrefs(body) ==
    LET opens == {i \in 1..Len(body) : body[i] = "<a href=\""}
        close(i) == CHOOSE j \in (i + 1)..Len(body) :
                        /\ body[j] = "\">"
                        /\ \A m \in (i + 1)..(j - 1) : body[m] # "\">"
    IN  {SubSeq(body, i + 1, close(i) - 1) : i \in opens}

\* C18: when a request that resolves to a directory is answered 200, each
\* link of the listing has for href the request path of that request, "/"
\* and the entry's name, also when the listing comes from the cache after a
\* request that reached the directory by another request path
C18_LinksFollowRequestPath ==
    \A p \in Paths :
        (/\ Ran /\ last.data = Req(p) /\ last.full_path = DPath
         /\ StatusOf(last.response) = "200 OK") =>
            /\ Hrefs(BodyOf(last.response)) # {}
            /\ \A h \in Hrefs(BodyOf(last.response)) :
                  \E i \in 1..Len(DirOrder) : h = p \o <<"/", DirOrder[i]>>

---------------------------------------------------------------------------
(* Properties of registrations and of stale events (Spec) *)

\* C19 (states): at a wait every connection of the table is registered, for
\* writing exactly when it holds a response and for reading exactly when it
\* holds none; a writable event is only ever pending for a connection that
\* holds a response; a connection removed in AwaitingWrite held a response;
\* one removed because its reregistration failed never had the pipeline run
C19_InterestFollowsResponse ==
    /\ AtWait =>
          \A id \in DOMAIN sessions :
              /\ id \in DOMAIN registry
              /\ registry[id] = "WRITABLE" <=> sessions[id].response.some
              /\ registry[id] = "READABLE" <=> ~sessions[id].response.some
    /\ \A i \in 1..Len(events) :
          (events[i].token \in DOMAIN sessions /\ events[i].writable)
              => sessions[events[i].token].response.some
    /\ (WasClosed /\ closed.phase = "AwaitingWrite") =>
          (closed.response.some /\ closed.runs = 1)
    /\ (WasClosed /\ closed.error = "Reregister") =>
          (closed.phase = "AwaitingRequest" /\ closed.runs = 0
           /\ ~closed.response.some)

\* a wait with a connection registered for writing that holds its response,
\* after another was removed because its reregistration failed
C19_Witness ==
    /\ AtWait /\ WasClosed /\ closed.error = "Reregister"
    /\ \E id \in DOMAIN sessions :
          registry[id] = "WRITABLE" /\ sessions[id].response.some

\* the step closes a connection, or panics trying to
CloseStep == closed' # closed

\* C20 (states): close_client's unwrap never failed, and the connection
\* closed latest is not in the table
C20_NoPanic ==
    /\ closed.phase # "panicked"
    /\ WasClosed => (closed.id \notin DOMAIN sessions
                     /\ closed.id \notin DOMAIN registry)

\* C20 (steps): processing an event whose identifier is not in the table
\* changes nothing but the batch; close_client is called only for an
\* identifier in the table, which it removes, and never again for the one it
\* closed before
C20_Step ==
    /\ (ClientStep /\ Head(events).token \notin DOMAIN sessions) =>
          /\ sessions' = sessions /\ registry' = registry /\ caches' = caches
          /\ hist' = hist /\ closed' = closed /\ fs' = fs /\ running'
    /\ CloseStep =>
          /\ closed'.id \in DOMAIN sessions
          /\ closed'.id \notin DOMAIN sessions'
          /\ closed'.id # closed.id

\* C20: a readiness event whose identifier is not in the connection table is
\* ignored, leaving the table, the registrations and the cache unchanged;
\* close_client is only called for an identifier in the table, so that its
\* unwrap never fails and no connection is closed twice
C20_AbsentIgnored == [](C20_NoPanic) /\ [][C20_Step]_vars

\* an event is pending for a connection that was removed, beside a
\* connection that is in the table
C20_Witness ==
    /\ running /\ events # <<>> /\ Head(events).token # SERVER_TOKEN
    /\ Head(events).token \notin DOMAIN sessions
    /\ WasClosed /\ closed.id = Head(events).token
    /\ DOMAIN sessions # {} /\ DOMAIN caches # {}

===========================================================================
